---- MODULE Spec2Model ----
(***************************************************************************)
(* Model of markdown_to_html.py: the command-line pipeline main() and the  *)
(* text passes extract_metadata() and generate_toc().                      *)
(*                                                                         *)
(* Text is a sequence of one-character strings.  HTML is a sequence of     *)
(* tokens: a heading tag is one token, every other character is its own    *)
(* token.  No text character is "<", so a substring search over tokens     *)
(* finds exactly the occurrences a search over characters finds.  The      *)
(* HTML given to generate_toc holds no tag with an id inside the text of   *)
(* a heading, so the space inside such a tag is never met by re.sub.       *)
(***************************************************************************)
EXTENDS Integers, Sequences, FiniteSets, TLC

VARIABLES
    pc,                \* position of the running function
    cli_css,           \* value of --css (None when the flag is absent)
    cli_template,      \* value of --template (None when the flag is absent)
    config_file,       \* the config file on disk: its kind and its fields
    exists,            \* the paths that exist on disk
    input_text,        \* text stored in the input file
    template_ok,       \* the template files on disk are well-formed
    config,            \* main: config
    css_file,          \* main: css_file
    template_file,     \* main: template_file
    markdown_content,  \* main / extract_metadata: markdown_content
    lines,             \* extract_metadata: lines
    metadata,          \* main / extract_metadata: metadata
    html_in,           \* generate_toc: the argument as it was passed
    html_content,      \* main / generate_toc: html_content
    matches,           \* generate_toc: matches
    k,                 \* iterations of the running loop completed
    toc,               \* main / generate_toc: toc
    css_content,       \* main: css_content
    final_html,        \* main: final_html, once apply_template returned
    calls,             \* names of the functions main has called, in order
    reads,             \* paths handed to read_file, in order
    written,           \* contents handed to write_file, in order
    raised             \* the exception that ended the run, or None

vars == <<pc, cli_css, cli_template, config_file, exists, input_text,
          template_ok, config, css_file, template_file, markdown_content,
          lines, metadata, html_in, html_content, matches, k, toc,
          css_content, final_html, calls, reads, written, raised>>

-----------------------------------------------------------------------------
(* Python values *)

\* None where a string is expected
None == "None"

\* None where a text (a sequence) is expected; no text has this element
NoneText == <<"None">>

\* truth value of a string-or-None operand of `or`
Truthy(v) == v # None /\ v # ""

\* the empty dict
EmptyDict == [x \in {} |-> None]

\* d[key] = value
DictSet(d, key, value) ==
    [x \in DOMAIN d \cup {key} |-> IF x = key THEN value ELSE d[x]]

\* d.get(key, default)
DictGet(d, key, default) == IF key \in DOMAIN d THEN d[key] ELSE default

-----------------------------------------------------------------------------
(* Characters *)

UpperCase == <<"A","B","C","D","E","F","G","H","I","J","K","L","M",
               "N","O","P","Q","R","S","T","U","V","W","X","Y","Z">>

LowerCase == <<"a","b","c","d","e","f","g","h","i","j","k","l","m",
               "n","o","p","q","r","s","t","u","v","w","x","y","z">>

Digits == {"0","1","2","3","4","5","6","7","8","9"}

Range(s) == {s[i] : i \in DOMAIN s}

\* the class \s
IsSpace(c) == c \in {" ", "\t", "\n", "\r", "\f"}

\* the class [A-Za-z0-9-_]
IsKeyChar(c) == c \in Range(UpperCase) \cup Range(LowerCase) \cup Digits \cup {"-", "_"}

\* str.lower() on one character (a tag token is lower case already)
LowerChar(c) ==
    IF c \in Range(UpperCase)
    THEN LowerCase[CHOOSE i \in DOMAIN UpperCase : UpperCase[i] = c]
    ELSE c

\* str.lower()
Lower(s) == [i \in DOMAIN s |-> LowerChar(s[i])]

\* str.strip()
RECURSIVE LStrip(_)
LStrip(s) == IF s # <<>> /\ IsSpace(Head(s)) THEN LStrip(Tail(s)) ELSE s

RECURSIVE RStrip(_)
RStrip(s) ==
    IF s # <<>> /\ IsSpace(s[Len(s)]) THEN RStrip(SubSeq(s, 1, Len(s) - 1)) ELSE s

Strip(s) == RStrip(LStrip(s))

\* s[p:p+len(t)] == t, p counted from 1
OccursAt(s, t, p) ==
    /\ p + Len(t) - 1 <= Len(s)
    /\ \A i \in 1..Len(t) : s[p + i - 1] = t[i]

\* str.replace(old, new) from position p on: every non-overlapping occurrence,
\* left to right (old is never empty here)
RECURSIVE ReplaceFrom(_, _, _, _)
ReplaceFrom(s, old, new, p) ==
    IF p > Len(s) THEN <<>>
    ELSE IF OccursAt(s, old, p)
         THEN new \o ReplaceFrom(s, old, new, p + Len(old))
         ELSE <<s[p]>> \o ReplaceFrom(s, old, new, p + 1)

\* str.replace(old, new, 1): the first occurrence only
RECURSIVE ReplaceFirstFrom(_, _, _, _)
ReplaceFirstFrom(s, old, new, p) ==
    IF p > Len(s) THEN <<>>
    ELSE IF OccursAt(s, old, p)
         THEN new \o SubSeq(s, p + Len(old), Len(s))
         ELSE <<s[p]>> \o ReplaceFirstFrom(s, old, new, p + 1)

ReplaceFirst(s, old, new) == ReplaceFirstFrom(s, old, new, 1)

Replace(s, old, new) == ReplaceFrom(s, old, new, 1)

\* str.split('\n') from position p on, cur being the piece under construction
RECURSIVE SplitFrom(_, _, _)
SplitFrom(s, p, cur) ==
    IF p > Len(s) THEN <<cur>>
    ELSE IF s[p] = "\n"
         THEN <<cur>> \o SplitFrom(s, p + 1, <<>>)
         ELSE SplitFrom(s, p + 1, Append(cur, s[p]))

SplitLines(s) == SplitFrom(s, 1, <<>>)

-----------------------------------------------------------------------------
(* generate_toc *)

\* the digits [1-6] of heading_pattern
MaxHeadingLevel == 6

HeadingLevels == 1..MaxHeadingLevel

\* "<hN>"
OpenTag == <<"<h1>", "<h2>", "<h3>", "<h4>", "<h5>", "<h6>">>

\* "</hN>"
CloseTag == <<"</h1>", "</h2>", "</h3>", "</h4>", "</h5>", "</h6>">>

\* "<hN id=" and its opening quote
IdOpenTag == <<"<h1 id=\"", "<h2 id=\"", "<h3 id=\"", "<h4 id=\"", "<h5 id=\"", "<h6 id=\"">>

\* the closing quote of the id attribute and the ">" of its tag
IdClose == "\">"

\* the least q > p with html[q] = "</hN>" and no newline in between, or 0:
\* what (.*?)</h\1> matches after "<hN>" at p ("." matches no newline)
RECURSIVE ClosingAt(_, _, _)
ClosingAt(html, level, q) ==
    IF q > Len(html) \/ html[q] = "\n" THEN 0
    ELSE IF html[q] = CloseTag[level] THEN q
    ELSE ClosingAt(html, level, q + 1)

\* heading_pattern.findall(html) from position p on: leftmost matches that do
\* not overlap, each as the groups (level, title)
RECURSIVE FindAllFrom(_, _)
FindAllFrom(html, p) ==
    IF p > Len(html) THEN <<>>
    ELSE IF \E n \in HeadingLevels : html[p] = OpenTag[n]
         THEN LET n == CHOOSE n \in HeadingLevels : html[p] = OpenTag[n]
                  q == ClosingAt(html, n, p + 1)
              IN  IF q = 0 THEN FindAllFrom(html, p + 1)
                  ELSE <<[level |-> n, title |-> SubSeq(html, p + 1, q - 1)]>>
                       \o FindAllFrom(html, q + 1)
         ELSE FindAllFrom(html, p + 1)

FindAll(html) == FindAllFrom(html, 1)

\* the end of the run \s+ that starts at p: the first position after it
RECURSIVE RunEnd(_, _)
RunEnd(s, p) == IF p <= Len(s) /\ IsSpace(s[p]) THEN RunEnd(s, p + 1) ELSE p

\* re.sub(r'\s+', '-', s) from position p on
RECURSIVE SubSpacesFrom(_, _)
SubSpacesFrom(s, p) ==
    IF p > Len(s) THEN <<>>
    ELSE IF IsSpace(s[p])
         THEN <<"-">> \o SubSpacesFrom(s, RunEnd(s, p))
         ELSE <<s[p]>> \o SubSpacesFrom(s, p + 1)

\* re.sub(r'\s', '-', title.lower()): one hyphen for each space of a run
AnchorPerSpace(title) ==
    [i \in DOMAIN title |-> IF IsSpace(title[i]) THEN "-" ELSE LowerChar(title[i])]

\* anchor = re.sub(r'\s+', '-', title.lower())
Anchor(title) == SubSpacesFrom(Lower(title), 1)

\* f'<h{level}>{title}</h{level}>'
PlainHeading(level, title) == <<OpenTag[level]>> \o title \o <<CloseTag[level]>>

\* f'<h{level} id="{anchor}">{title}</h{level}>'
IdHeading(level, anchor, title) ==
    <<IdOpenTag[level]>> \o anchor \o <<IdClose>> \o title \o <<CloseTag[level]>>

\* toc.append({'title': title, 'anchor': anchor})
TocAppend(t, title, anchor) == Append(t, [title |-> title, anchor |-> anchor])

\* an iteration that writes the title, not the anchor, into the id attribute
AnnotateHeadingWithTitle(html, level, title) ==
    Replace(html, PlainHeading(level, title), IdHeading(level, title, title))

\* html_content.replace(...) of one loop iteration
AnnotateHeading(html, level, title) ==
    Replace(html, PlainHeading(level, title), IdHeading(level, Anchor(title), title))

\* the loop of generate_toc from iteration i on; the result is (toc, html_content)
RECURSIVE TocLoop(_, _, _, _)
TocLoop(ms, i, t, html) ==
    IF i > Len(ms) THEN <<t, html>>
    ELSE TocLoop(ms, i + 1,
                 TocAppend(t, ms[i].title, Anchor(ms[i].title)),
                 AnnotateHeading(html, ms[i].level, ms[i].title))

\* generate_toc(html_content) as main calls it
GenerateToc(html) == TocLoop(FindAll(html), 1, <<>>, html)

-----------------------------------------------------------------------------
(* extract_metadata *)

\* the first position from p on that holds no character of the class
RECURSIVE SkipSpaces(_, _)
SkipSpaces(s, p) == IF p <= Len(s) /\ IsSpace(s[p]) THEN SkipSpaces(s, p + 1) ELSE p

RECURSIVE SkipKeyChars(_, _)
SkipKeyChars(s, p) ==
    IF p <= Len(s) /\ IsKeyChar(s[p]) THEN SkipKeyChars(s, p + 1) ELSE p

\* metadata_pattern.match(line).groups() as <<key, value>>, or <<>> for no
\* match.  ^\s* and the key are greedy and cannot give anything back (no key
\* character is a space or a colon); (.+) takes the rest of the line after
\* \s*, which gives back one character when the rest is all spaces.
MetadataMatch(line) ==
    LET i == SkipSpaces(line, 1)
        j == SkipKeyChars(line, i)
        v == SkipSpaces(line, j + 1)
    IN  IF j = i \/ j > Len(line) \/ line[j] # ":" \/ j = Len(line) THEN <<>>
        ELSE IF v > Len(line)
             THEN <<SubSeq(line, i, j - 1), <<line[Len(line)]>> >>
             ELSE <<SubSeq(line, i, j - 1), SubSeq(line, v, Len(line))>>

\* a loop body that keeps the value a key already has
MetadataLineKeepFirst(md, line) ==
    LET m == MetadataMatch(line)
    IN  IF m = <<>> \/ Strip(m[1]) \in DOMAIN md THEN md
        ELSE DictSet(md, Strip(m[1]), Strip(m[2]))

\* the body of the loop over lines: metadata[key.strip()] = value.strip()
MetadataLine(md, line) ==
    LET m == MetadataMatch(line)
    IN  IF m = <<>> THEN md ELSE DictSet(md, Strip(m[1]), Strip(m[2]))

\* the loop of extract_metadata from line i on
RECURSIVE MetadataLoop(_, _, _)
MetadataLoop(ls, i, md) ==
    IF i > Len(ls) THEN md ELSE MetadataLoop(ls, i + 1, MetadataLine(md, ls[i]))

\* extract_metadata(markdown_content) as main calls it
ExtractMetadata(text) == MetadataLoop(SplitLines(text), 1, EmptyDict)

-----------------------------------------------------------------------------
(* Inputs *)

\* every concatenation of at most n of the pieces
RECURSIVE Concats(_, _)
Concats(pieces, n) ==
    IF n = 0 THEN {<<>>}
    ELSE LET shorter == Concats(pieces, n - 1)
         IN  shorter \cup {c \o q : c \in shorter, q \in pieces}

MaxTocPieces == 4

TocPieces ==
    { <<"<h1>">>, <<"</h1>">>, <<"<h6>">>, <<"</h6>">>,
      <<"A">>, <<"a">>, <<" ">>, <<"\n">>,
      <<"A", " ">>,
      <<"<h1>", "</h1>">>,
      <<"<h1>", "A", "</h1>">>,
      <<"<h6>", "<h1>", "</h1>", "</h6>">> }

MaxMetaPieces == 4

MetaPieces ==
    { <<"a">>, <<"B">>, <<":">>, <<" ">>, <<"\n">>,
      <<"a", ":", "B">>,
      <<"a", ":", " ", "a", "\n">>,
      <<"B", ":", "a", " ", "\n">> }

\* values of the variables of main, which the two functions below do not use
Idle ==
    /\ cli_css = None /\ cli_template = None
    /\ config_file = [kind |-> "absent", fields |-> EmptyDict]
    /\ exists = {} /\ input_text = <<>> /\ template_ok = TRUE
    /\ config = [type |-> "dict", items |-> EmptyDict]
    /\ css_file = None /\ template_file = None
    /\ css_content = None /\ final_html = [template |-> None, context |-> EmptyDict]
    /\ calls = <<>> /\ reads = <<>> /\ written = <<>> /\ raised = None

-----------------------------------------------------------------------------
(* generate_toc, one loop iteration at a time *)

InitToc ==
    /\ Idle
    /\ pc = "toc_findall"
    /\ html_in \in Concats(TocPieces, MaxTocPieces)
    /\ html_content = html_in
    /\ markdown_content = <<>> /\ lines = <<>> /\ metadata = EmptyDict
    /\ matches = <<>> /\ k = 0 /\ toc = <<>>

TocFindAll ==
    /\ pc = "toc_findall"
    /\ matches' = FindAll(html_content)
    /\ toc' = <<>>
    /\ k' = 0
    /\ pc' = "toc_loop"
    /\ UNCHANGED <<cli_css, cli_template, config_file, exists, input_text,
                   template_ok, config, css_file, template_file,
                   markdown_content, lines, metadata, html_in, html_content,
                   css_content, final_html, calls, reads, written, raised>>

TocIter ==
    /\ pc = "toc_loop"
    /\ k < Len(matches)
    /\ LET level == matches[k + 1].level
           title == matches[k + 1].title
       IN  /\ toc' = TocAppend(toc, title, Anchor(title))
           /\ html_content' = AnnotateHeading(html_content, level, title)
    /\ k' = k + 1
    /\ UNCHANGED <<pc, cli_css, cli_template, config_file, exists, input_text,
                   template_ok, config, css_file, template_file,
                   markdown_content, lines, metadata, html_in, matches,
                   css_content, final_html, calls, reads, written, raised>>

TocReturn ==
    /\ pc = "toc_loop"
    /\ k = Len(matches)
    /\ pc' = "toc_return"
    /\ UNCHANGED <<cli_css, cli_template, config_file, exists, input_text,
                   template_ok, config, css_file, template_file,
                   markdown_content, lines, metadata, html_in, html_content,
                   matches, k, toc, css_content, final_html, calls, reads,
                   written, raised>>

NextToc == TocFindAll \/ TocIter \/ TocReturn

SpecToc == InitToc /\ [][NextToc]_vars

-----------------------------------------------------------------------------
(* extract_metadata, one line at a time *)

InitMeta ==
    /\ Idle
    /\ pc = "meta_split"
    /\ markdown_content \in Concats(MetaPieces, MaxMetaPieces)
    /\ lines = <<>> /\ metadata = EmptyDict
    /\ html_in = <<>> /\ html_content = <<>>
    /\ matches = <<>> /\ k = 0 /\ toc = <<>>

MetaSplit ==
    /\ pc = "meta_split"
    /\ metadata' = EmptyDict
    /\ lines' = SplitLines(markdown_content)
    /\ k' = 0
    /\ pc' = "meta_loop"
    /\ UNCHANGED <<cli_css, cli_template, config_file, exists, input_text,
                   template_ok, config, css_file, template_file,
                   markdown_content, html_in, html_content, matches, toc,
                   css_content, final_html, calls, reads, written, raised>>

MetaLine ==
    /\ pc = "meta_loop"
    /\ k < Len(lines)
    /\ metadata' = MetadataLine(metadata, lines[k + 1])
    /\ k' = k + 1
    /\ UNCHANGED <<pc, cli_css, cli_template, config_file, exists, input_text,
                   template_ok, config, css_file, template_file,
                   markdown_content, lines, html_in, html_content, matches,
                   toc, css_content, final_html, calls, reads, written, raised>>

MetaReturn ==
    /\ pc = "meta_loop"
    /\ k = Len(lines)
    /\ pc' = "meta_return"
    /\ UNCHANGED <<cli_css, cli_template, config_file, exists, input_text,
                   template_ok, config, css_file, template_file,
                   markdown_content, lines, metadata, html_in, html_content,
                   matches, k, toc, css_content, final_html, calls, reads,
                   written, raised>>

NextMeta == MetaSplit \/ MetaLine \/ MetaReturn

SpecMeta == InitMeta /\ [][NextMeta]_vars

-----------------------------------------------------------------------------
(* main *)

InputPath == "in.md"
CliCss == "cli.css"
CfgCss == "cfg.css"
CliTemplate == "cli.html"
CfgTemplate == "custom.html"

\* default of --template
DefaultTemplate == "templates/default_template.html"

Files == {InputPath, CliCss, CfgCss, CliTemplate, CfgTemplate, DefaultTemplate}

\* the names render() is given as keywords before **metadata
HtmlContentName == <<"h","t","m","l","_","c","o","n","t","e","n","t">>
CssContentName == <<"c","s","s","_","c","o","n","t","e","n","t">>
TocName == <<"t","o","c">>
ReservedNames == {HtmlContentName, CssContentName, TocName}

\* texts of the input file: empty, "a: B", "html_content: x"
InputTexts ==
    { <<>>,
      <<"a", ":", " ", "B">>,
      HtmlContentName \o <<":", " ", "x">> }

\* what markdown.markdown(text, extensions=['toc']) may return: nothing, a
\* heading with the id the toc extension gives it, a raw HTML heading passed
\* through as it is
RenderedHtml ==
    { <<>>,
      <<"<h1 id=\"", "a", "\">", "A", "</h1>">>,
      <<"<h1>", "A", " ", "A", "</h1>">> }

\* JSON objects of the config file
ConfigObjects ==
    LET ok(d) == /\ "css" \in DOMAIN d => d["css"] = CfgCss
                 /\ "template" \in DOMAIN d => d["template"] = CfgTemplate
    IN  {d \in UNION {[keys -> {CfgCss, CfgTemplate}] : keys \in SUBSET {"css", "template"}} :
            ok(d)}

\* the config file: absent, not JSON, JSON but no object, a JSON object
ConfigFiles ==
    {[kind |-> kd, fields |-> EmptyDict] : kd \in {"absent", "invalid", "nonobject"}}
    \cup {[kind |-> "object", fields |-> d] : d \in ConfigObjects}

\* args.template: the flag's value, or the default of add_argument
ArgsTemplate == IF cli_template = None THEN DefaultTemplate ELSE cli_template

\* text that read_file returns for an existing CSS or template file
FileText(path) ==
    CASE path = CliCss -> "/* cli.css */"
      [] path = CfgCss -> "/* cfg.css */"
      [] path = CliTemplate -> "<!-- cli.html -->"
      [] path = CfgTemplate -> "<!-- custom.html -->"
      [] path = DefaultTemplate -> "<!-- default_template.html -->"
      [] OTHER -> ""

\* final_html before apply_template has returned
NoHtml == [template |-> None, context |-> EmptyDict]

Init ==
    /\ pc = "main_config"
    /\ cli_css \in {None, "", CliCss}
    /\ cli_template \in {None, "", CliTemplate}
    /\ config_file \in ConfigFiles
    /\ exists \in SUBSET Files
    /\ input_text \in IF InputPath \in exists THEN InputTexts ELSE {<<>>}
    /\ template_ok \in BOOLEAN
    /\ config = [type |-> "dict", items |-> EmptyDict]
    /\ css_file = None /\ template_file = None
    /\ markdown_content = NoneText /\ lines = <<>> /\ metadata = EmptyDict
    /\ html_in = <<>> /\ html_content = <<>>
    /\ matches = <<>> /\ k = 0 /\ toc = <<>>
    /\ css_content = None /\ final_html = NoHtml
    /\ calls = <<>> /\ reads = <<>> /\ written = <<>> /\ raised = None

\* lines 68-72: config = {}; json.load when the file exists
LoadConfig ==
    /\ pc = "main_config"
    /\ IF config_file.kind = "absent"
       THEN /\ config' = [type |-> "dict", items |-> EmptyDict]
            /\ pc' = "main_resolve" /\ raised' = None
       ELSE IF config_file.kind = "invalid"
       THEN /\ config' = config
            /\ pc' = "raised" /\ raised' = "JSONDecodeError"
       ELSE IF config_file.kind = "nonobject"
       THEN /\ config' = [type |-> "list", items |-> EmptyDict]
            /\ pc' = "main_resolve" /\ raised' = None
       ELSE /\ config' = [type |-> "dict", items |-> config_file.fields]
            /\ pc' = "main_resolve" /\ raised' = None
    /\ UNCHANGED <<cli_css, cli_template, config_file, exists, input_text,
                   template_ok, css_file, template_file, markdown_content,
                   lines, metadata, html_in, html_content, matches, k, toc,
                   css_content, final_html, calls, reads, written>>

\* lines 76-77: css_file = args.css or config.get('css');
\* template_file = args.template or config.get('template', default).
\* config.get is evaluated only when the left operand is falsy, and raises
\* AttributeError when config is no dict
Resolved(cfg) ==
    [error |-> (~Truthy(cli_css) \/ ~Truthy(ArgsTemplate)) /\ cfg.type # "dict",
     css |-> IF Truthy(cli_css) THEN cli_css ELSE DictGet(cfg.items, "css", None),
     template |-> IF Truthy(ArgsTemplate) THEN ArgsTemplate
                  ELSE DictGet(cfg.items, "template", DefaultTemplate)]

\* lines 74-77
Resolve ==
    /\ pc = "main_resolve"
    /\ LET r == Resolved(config)
       IN  IF r.error
           THEN /\ pc' = "raised" /\ raised' = "AttributeError"
                /\ UNCHANGED <<css_file, template_file>>
           ELSE /\ css_file' = r.css /\ template_file' = r.template
                /\ pc' = "main_input" /\ raised' = None
    /\ UNCHANGED <<cli_css, cli_template, config_file, exists, input_text,
                   template_ok, config, markdown_content, lines, metadata,
                   html_in, html_content, matches, k, toc, css_content,
                   final_html, calls, reads, written>>

\* has read_file(path) a result other than None
Readable(path) == path \in exists

\* should main carry on after read_file returned content for this path
InputCheckAlwaysPasses(path) == TRUE

\* lines 80-81: `if markdown_content is None: return`, as its negation
InputCheck(path) == Readable(path)

\* lines 79-81
ReadInput ==
    /\ pc = "main_input"
    /\ calls' = Append(calls, "read_file")
    /\ reads' = Append(reads, [path |-> InputPath, as |-> "input"])
    /\ markdown_content' = IF Readable(InputPath) THEN input_text ELSE NoneText
    /\ pc' = IF InputCheck(InputPath) THEN "main_metadata" ELSE "returned"
    /\ UNCHANGED <<cli_css, cli_template, config_file, exists, input_text,
                   template_ok, config, css_file, template_file, lines,
                   metadata, html_in, html_content, matches, k, toc,
                   css_content, final_html, written, raised>>

\* line 83 (extract_metadata(None) would raise on None.split)
ExtractMetadataCall ==
    /\ pc = "main_metadata"
    /\ calls' = Append(calls, "extract_metadata")
    /\ IF markdown_content = NoneText
       THEN /\ pc' = "raised" /\ raised' = "AttributeError"
            /\ UNCHANGED metadata
       ELSE /\ metadata' = ExtractMetadata(markdown_content)
            /\ pc' = "main_convert" /\ raised' = None
    /\ UNCHANGED <<cli_css, cli_template, config_file, exists, input_text,
                   template_ok, config, css_file, template_file,
                   markdown_content, lines, html_in, html_content, matches, k,
                   toc, css_content, final_html, reads, written>>

\* line 84
ConvertMarkdown ==
    /\ pc = "main_convert"
    /\ calls' = Append(calls, "convert_markdown_to_html")
    /\ html_content' \in RenderedHtml
    /\ pc' = "main_toc"
    /\ UNCHANGED <<cli_css, cli_template, config_file, exists, input_text,
                   template_ok, config, css_file, template_file,
                   markdown_content, lines, metadata, html_in, matches, k, toc,
                   css_content, final_html, reads, written, raised>>

\* line 85
GenerateTocCall ==
    /\ pc = "main_toc"
    /\ calls' = Append(calls, "generate_toc")
    /\ html_in' = html_content
    /\ toc' = GenerateToc(html_content)[1]
    /\ html_content' = GenerateToc(html_content)[2]
    /\ pc' = "main_css"
    /\ UNCHANGED <<cli_css, cli_template, config_file, exists, input_text,
                   template_ok, config, css_file, template_file,
                   markdown_content, lines, metadata, matches, k,
                   css_content, final_html, reads, written, raised>>

\* a CSS check that lets a missing file pass
CssCheckAlwaysPasses(path) == TRUE

\* lines 90-91: `if css_content is None: return`, as its negation
CssCheck(path) == Readable(path)

\* lines 87-91
ReadCss ==
    /\ pc = "main_css"
    /\ IF Truthy(css_file)
       THEN /\ calls' = Append(calls, "read_file")
            /\ reads' = Append(reads, [path |-> css_file, as |-> "css"])
            /\ css_content' = IF Readable(css_file) THEN FileText(css_file) ELSE None
            /\ pc' = IF CssCheck(css_file) THEN "main_template" ELSE "returned"
       ELSE /\ css_content' = None
            /\ pc' = "main_template"
            /\ UNCHANGED <<calls, reads>>
    /\ UNCHANGED <<cli_css, cli_template, config_file, exists, input_text,
                   template_ok, config, css_file, template_file,
                   markdown_content, lines, metadata, html_in, html_content,
                   matches, k, toc, final_html, written, raised>>

\* a Template() that accepts None as source (as str(None) would be)
TemplateErrorLenient(path) ==
    IF Readable(path) /\ ~template_ok THEN "TemplateSyntaxError" ELSE None

\* line 56: Template(template_str) raises TypeError on the None that
\* read_file returned for a missing file, and TemplateSyntaxError on a
\* malformed template
TemplateError(path) ==
    IF ~Readable(path) THEN "TypeError"
    ELSE IF ~template_ok THEN "TemplateSyntaxError"
    ELSE None

\* a binding in which the metadata is merged over the three keywords
BindContextMetadataLast(html, css, t, md) ==
    [error |-> None,
     context |-> [n \in ReservedNames \cup DOMAIN md |->
                    IF n \in DOMAIN md THEN md[n]
                    ELSE IF n = HtmlContentName THEN html
                    ELSE IF n = CssContentName THEN css
                    ELSE t]]

\* line 57: render(html_content=..., css_content=..., toc=..., **metadata);
\* a keyword given twice is a TypeError of the call
BindContext(html, css, t, md) ==
    IF DOMAIN md \cap ReservedNames # {}
    THEN [error |-> "TypeError", context |-> EmptyDict]
    ELSE [error |-> None,
          context |-> [n \in ReservedNames \cup DOMAIN md |->
                         IF n = HtmlContentName THEN html
                         ELSE IF n = CssContentName THEN css
                         ELSE IF n = TocName THEN t
                         ELSE md[n]]]

\* line 93 (apply_template, lines 53-57)
ApplyTemplate ==
    /\ pc = "main_template"
    /\ calls' = Append(calls, "apply_template")
    /\ reads' = Append(reads, [path |-> template_file, as |-> "template"])
    /\ LET failed == TemplateError(template_file)
           bound == BindContext(html_content, css_content, toc, metadata)
       IN  IF failed # None
           THEN /\ pc' = "raised" /\ raised' = failed
                /\ UNCHANGED final_html
           ELSE IF bound.error # None
           THEN /\ pc' = "raised" /\ raised' = bound.error
                /\ UNCHANGED final_html
           ELSE /\ final_html' = [template |-> IF Readable(template_file)
                                               THEN FileText(template_file)
                                               ELSE None,
                                  context |-> bound.context]
                /\ pc' = "main_write" /\ raised' = None
    /\ UNCHANGED <<cli_css, cli_template, config_file, exists, input_text,
                   template_ok, config, css_file, template_file,
                   markdown_content, lines, metadata, html_in, html_content,
                   matches, k, toc, css_content, written>>

\* lines 94-95
WriteFile ==
    /\ pc = "main_write"
    /\ calls' = Append(calls, "write_file")
    /\ written' = Append(written, final_html)
    /\ pc' = "done"
    /\ UNCHANGED <<cli_css, cli_template, config_file, exists, input_text,
                   template_ok, config, css_file, template_file,
                   markdown_content, lines, metadata, html_in, html_content,
                   matches, k, toc, css_content, final_html, reads, raised>>

Next ==
    \/ LoadConfig
    \/ Resolve
    \/ ReadInput
    \/ ExtractMetadataCall
    \/ ConvertMarkdown
    \/ GenerateTocCall
    \/ ReadCss
    \/ ApplyTemplate
    \/ WriteFile

Spec == Init /\ [][Next]_vars

-----------------------------------------------------------------------------
(* What the claims about main speak of *)

Called(f) == \E i \in DOMAIN calls : calls[i] = f

\* the paths read_file was given for this purpose
ReadAs(purpose) == {reads[i].path : i \in {j \in DOMAIN reads : reads[j].as = purpose}}

Ended == pc \in {"done", "returned", "raised"}

ConfigHas(field) ==
    config_file.kind = "object" /\ field \in DOMAIN config_file.fields

\* the configuration is read without an error: no file, a JSON object, or
\* JSON of another type that config.get is never asked about
ConfigReadable ==
    \/ config_file.kind \in {"absent", "object"}
    \/ config_file.kind = "nonobject" /\ Truthy(cli_css) /\ Truthy(ArgsTemplate)

\* the CSS step of main is over
CssStepOver == Called("generate_toc") /\ pc # "main_css"

\* C1: with a config file that has "template" and no --template flag, the
\* template path given to apply_template is the one of the config file.
C1_ConfigTemplateUsed ==
    (ConfigHas("template") /\ cli_template = None /\ Called("apply_template")) =>
        /\ template_file = config_file.fields["template"]
        /\ ReadAs("template") = {config_file.fields["template"]}

\* C2 as stated: with the input file missing the run writes nothing, raises
\* nothing, and returns after read_file gave None, before any later step.
C2_MissingInputQuiet ==
    InputPath \notin exists =>
        /\ written = <<>>
        /\ raised = None
        /\ \A i \in DOMAIN calls : calls[i] = "read_file"
        /\ ReadAs("css") = {} /\ ReadAs("template") = {}
        /\ Ended => pc = "returned" /\ markdown_content = NoneText

\* C2 amended: with the input file missing the run writes nothing and runs no
\* step after the input read; when the configuration is read without an
\* error, read_file gives None and main returns without raising; otherwise
\* the run ends in the error of reading the configuration, before the input
\* is read.
C2_MissingInputNoWrite ==
    InputPath \notin exists =>
        /\ written = <<>>
        /\ \A i \in DOMAIN calls : calls[i] = "read_file"
        /\ ReadAs("css") = {} /\ ReadAs("template") = {}
        /\ ConfigReadable =>
              /\ raised = None
              /\ Ended => /\ pc = "returned"
                          /\ markdown_content = NoneText
                          /\ reads = <<[path |-> InputPath, as |-> "input"]>>
        /\ (~ConfigReadable /\ Ended) =>
              /\ pc = "raised"
              /\ raised \in {"JSONDecodeError", "AttributeError"}
              /\ reads = <<>>

\* C2 witness: the run has returned on the missing input
C2_Witness ==
    /\ InputPath \notin exists
    /\ pc = "returned"
    /\ raised = None
    /\ markdown_content = NoneText
    /\ reads = <<[path |-> InputPath, as |-> "input"]>>
    /\ written = <<>>

\* C3: when a CSS path is resolved and that file is missing, apply_template
\* and write_file are never called and nothing is written; the run returns
\* on the None that read_file gave for the CSS file.
C3_MissingCssAborts ==
    (Truthy(css_file) /\ css_file \notin exists) =>
        /\ ~Called("apply_template")
        /\ ~Called("write_file")
        /\ written = <<>>
        /\ ReadAs("template") = {}
        /\ CssStepOver => pc = "returned" /\ css_content = None /\ raised = None

\* C3 witness: the run has returned on a missing CSS file after the input,
\* metadata, rendering and TOC steps
C3_Witness ==
    /\ pc = "returned"
    /\ Truthy(css_file) /\ css_file \notin exists
    /\ calls = <<"read_file", "extract_metadata", "convert_markdown_to_html",
                 "generate_toc", "read_file">>
    /\ ReadAs("css") = {css_file}
    /\ written = <<>>

\* the calls of a run that went through every step
AllSteps ==
    <<"read_file", "extract_metadata", "convert_markdown_to_html", "generate_toc">>
    \o (IF Truthy(css_file) THEN <<"read_file">> ELSE <<>>)
    \o <<"apply_template", "write_file">>

\* C4: the output is written at most once, as the last step, after the input
\* read, metadata extraction, rendering, TOC building, the CSS read (when
\* CSS is asked for) and template application succeeded; with the template
\* file missing apply_template raises and nothing is written.
C4_WrittenOnceAtEnd ==
    /\ Len(written) <= 1
    /\ Cardinality({i \in DOMAIN calls : calls[i] = "write_file"}) = Len(written)
    /\ written # <<>> =>
          /\ pc = "done" /\ raised = None
          /\ calls = AllSteps
          /\ InputPath \in exists /\ markdown_content = input_text
          /\ Truthy(css_file) =>
                css_file \in exists /\ css_content = FileText(css_file)
          /\ template_file \in exists /\ template_ok
          /\ written[1] = final_html
          /\ final_html.template = FileText(template_file)
    /\ (Called("apply_template") /\ template_file \notin exists) =>
          pc = "raised" /\ raised = "TypeError" /\ written = <<>>

\* C4 witness: a run with CSS has written its output, once
C4_Witness ==
    /\ pc = "done"
    /\ Len(written) = 1
    /\ Truthy(css_file)
    /\ calls = <<"read_file", "extract_metadata", "convert_markdown_to_html",
                 "generate_toc", "read_file", "apply_template", "write_file">>

\* C8: in every run that writes its output, html_content, css_content and
\* toc are bound to the rendered body, the CSS text (or None) and the TOC
\* list, whatever the metadata; metadata with one of these three names as
\* key makes the render call raise, so that such a run writes nothing.
C8_ReservedNamesKept ==
    /\ written # <<>> =>
          LET ctx == written[1].context
          IN  /\ ctx[HtmlContentName] = html_content
              /\ ctx[TocName] = toc
              /\ ctx[CssContentName] = css_content
              /\ DOMAIN ctx = ReservedNames \cup DOMAIN metadata
    /\ (Called("apply_template") /\ DOMAIN metadata \cap ReservedNames # {}) =>
          pc = "raised" /\ raised \in {"TypeError", "TemplateSyntaxError"}

\* C8 witness: an output written from a document with metadata, the metadata
\* key bound beside the three reserved names
C8_Witness ==
    /\ pc = "done"
    /\ DOMAIN metadata = {<<"a">>}
    /\ written[1].context[<<"a">>] = <<"B">>
    /\ written[1].context[HtmlContentName] = html_content
    /\ html_content # <<>>

\* the CSS path by the precedence --css flag > config "css" > none
CssByPrecedence ==
    IF cli_css # None THEN cli_css
    ELSE IF ConfigHas("css") THEN config_file.fields["css"]
    ELSE None

\* C9: the CSS file read is the one of --css when the flag is given, else the
\* one of the config file's "css" when it has one; with neither no CSS file
\* is read, css_content is None and the run goes on to the template and the
\* output.
C9_CssPrecedence ==
    CssStepOver =>
        IF CssByPrecedence # None
        THEN ReadAs("css") = {CssByPrecedence}
        ELSE /\ ReadAs("css") = {}
             /\ css_content = None
             /\ pc # "returned"
             /\ pc = "done" => written[1].context[CssContentName] = None

-----------------------------------------------------------------------------
(* What the claims about generate_toc speak of *)

\* the headings of html from position p on, with the positions of their tags
RECURSIVE HeadingSpansFrom(_, _)
HeadingSpansFrom(html, p) ==
    IF p > Len(html) THEN <<>>
    ELSE LET ends == {q \in (p + 1)..Len(html) :
                        /\ \E n \in HeadingLevels :
                              html[p] = OpenTag[n] /\ html[q] = CloseTag[n]
                        /\ \A r \in (p + 1)..(q - 1) :
                              /\ html[r] # "\n"
                              /\ \A n \in HeadingLevels :
                                    html[p] = OpenTag[n] => html[r] # CloseTag[n]}
         IN  IF ends = {} THEN HeadingSpansFrom(html, p + 1)
             ELSE LET q == CHOOSE q \in ends : TRUE
                  IN  <<[open |-> p, close |-> q,
                         level |-> CHOOSE n \in HeadingLevels : html[p] = OpenTag[n],
                         title |-> SubSeq(html, p + 1, q - 1)]>>
                      \o HeadingSpansFrom(html, q + 1)

Headings(html) == HeadingSpansFrom(html, 1)

\* the title in lower case, a hyphen for the first space of each run of
\* spaces and nothing for the other spaces of the run
Slug(title) ==
    LET mark(i) == IF ~IsSpace(title[i]) THEN LowerChar(title[i])
                   ELSE IF i > 1 /\ IsSpace(title[i - 1]) THEN "" ELSE "-"
    IN  SelectSeq([i \in DOMAIN title |-> mark(i)], LAMBDA c : c # "")

\* html with the opening tag of each heading given the id of its own slug,
\* and nothing else changed
RECURSIVE WithIdsFrom(_, _, _)
WithIdsFrom(html, hs, p) ==
    IF p > Len(html) THEN <<>>
    ELSE IF \E i \in DOMAIN hs : hs[i].open = p
         THEN LET h == hs[CHOOSE i \in DOMAIN hs : hs[i].open = p]
              IN  <<IdOpenTag[h.level]>> \o Slug(h.title) \o <<IdClose>>
                  \o WithIdsFrom(html, hs, p + 1)
         ELSE <<html[p]>> \o WithIdsFrom(html, hs, p + 1)

WithIds(html) == WithIdsFrom(html, Headings(html), 1)

\* no two headings share both level and text
DistinctHeadings(hs) ==
    \A i, j \in DOMAIN hs :
        i # j => hs[i].level # hs[j].level \/ hs[i].title # hs[j].title

\* no heading has a heading tag inside its text
NoTagInTitles(hs) ==
    \A i \in DOMAIN hs : \A r \in DOMAIN hs[i].title : \A n \in HeadingLevels :
        hs[i].title[r] # OpenTag[n]

\* number of non-overlapping occurrences of t in s from position p on
RECURSIVE CountFrom(_, _, _)
CountFrom(s, t, p) ==
    IF p > Len(s) THEN 0
    ELSE IF OccursAt(s, t, p) THEN 1 + CountFrom(s, t, p + Len(t))
    ELSE CountFrom(s, t, p + 1)

Count(s, t) == CountFrom(s, t, 1)

\* C6: generate_toc returns one entry per heading found, in document order,
\* with the heading's text as title and, as anchor, the title in lower case
\* with each run of spaces turned into one hyphen; a document that is one
\* heading comes back as that heading with id="anchor".
C6_TocEntries ==
    pc = "toc_return" =>
        LET hs == Headings(html_in)
        IN  /\ Len(toc) = Len(hs)
            /\ \A i \in DOMAIN hs :
                  /\ toc[i].title = hs[i].title
                  /\ toc[i].anchor = Slug(hs[i].title)
            /\ \A n \in HeadingLevels :
                  (Len(hs) = 1 /\ html_in = PlainHeading(n, hs[1].title))
                  => html_content = IdHeading(n, Slug(hs[1].title), hs[1].title)

\* C6 witness: <h1>A A</h1> gives the entry (A A, a-a) and <h1 id="a-a">A A</h1>
C6_Witness ==
    /\ pc = "toc_return"
    /\ html_in = <<"<h1>", "A", " ", "A", "</h1>">>
    /\ toc = <<[title |-> <<"A", " ", "A">>, anchor |-> <<"a", "-", "a">>]>>
    /\ html_content = <<"<h1 id=\"", "a", "-", "a", "\">", "A", " ", "A", "</h1>">>

\* C5 as stated: with at most six headings, pairwise distinct, every anchor of
\* the TOC is the id of the heading tag it was derived from and of no other
\* heading tag.
C5_AnchorOnOwnTagOnly ==
    pc = "toc_return" =>
        LET hs == Headings(html_in)
        IN  (Len(hs) <= 6 /\ DistinctHeadings(hs)) =>
                /\ html_content = WithIds(html_in)
                /\ \A i \in DOMAIN hs : toc[i].anchor = Slug(hs[i].title)
                /\ \A i, j \in DOMAIN toc :
                      i # j => toc[i].anchor # toc[j].anchor

\* C5 amended: with at most six headings, pairwise distinct, none with a
\* heading tag inside its text, every heading tag of the result carries the
\* anchor of its own TOC entry as id and nothing else of the HTML changed;
\* another heading tag carries the same id exactly when its entry has the
\* same anchor.
C5_AnchorOnOwnTag ==
    pc = "toc_return" =>
        LET hs == Headings(html_in)
        IN  (Len(hs) <= 6 /\ DistinctHeadings(hs)
             /\ NoTagInTitles(hs)) =>
                /\ html_content = WithIds(html_in)
                /\ Len(toc) = Len(hs)
                /\ \A i \in DOMAIN hs : toc[i].anchor = Slug(hs[i].title)

\* C5 witness: two distinct headings with different anchors, both annotated
C5_Witness ==
    /\ pc = "toc_return"
    /\ html_in = <<"<h1>", "A", "</h1>", "<h6>", "A", " ", "</h6>">>
    /\ html_content = <<"<h1 id=\"", "a", "\">", "A", "</h1>",
                        "<h6 id=\"", "a", "-", "\">", "A", " ", "</h6>">>
    /\ toc[1].anchor = <<"a">> /\ toc[2].anchor = <<"a", "-">>

\* what C10 says of one step, for the documents that satisfy Pre
DuplicateStep(Pre(_)) ==
    LET hs == Headings(html_in)
        same(i, j) == hs[i].level = hs[j].level /\ hs[i].title = hs[j].title
        dups(i) == {j \in DOMAIN hs : same(i, j)}
    IN  Pre(hs) =>
        /\ (pc = "toc_loop" /\ k' = k + 1 /\ Cardinality(dups(k')) > 1) =>
              LET plain == PlainHeading(hs[k'].level, hs[k'].title)
                  withid == IdHeading(hs[k'].level, Slug(hs[k'].title), hs[k'].title)
              IN  IF \A j \in dups(k') : j >= k'
                  THEN /\ Count(html_content', plain) = 0
                       /\ Count(html_content', withid) >= Cardinality(dups(k'))
                  ELSE html_content' = html_content
        /\ pc' = "toc_return" =>
              /\ Len(toc') = Len(hs)
              /\ \A i, j \in DOMAIN hs :
                    same(i, j) => /\ toc'[i] = toc'[j]
                                  /\ toc'[i].title = hs[i].title
                                  /\ toc'[i].anchor = Slug(hs[i].title)

AnyHeadings(hs) == TRUE

\* C10 as stated: of headings with the same level and text, the iteration for
\* the first rewrites every occurrence to carry the one id, the iterations
\* for the others leave the HTML as it is, and the TOC has one entry for each
\* of them, all alike.
C10_Duplicates == [][DuplicateStep(AnyHeadings)]_vars

\* C10 amended: the same, for HTML in which no heading has a heading tag
\* inside its text.
C10_DuplicatesUnnested == [][DuplicateStep(NoTagInTitles)]_vars

\* C10 witness: <h1>A</h1><h1>A</h1> returned with both tags id="a" and two
\* entries alike
C10_Witness ==
    /\ pc = "toc_return"
    /\ html_in = <<"<h1>", "A", "</h1>", "<h1>", "A", "</h1>">>
    /\ html_content = <<"<h1 id=\"", "a", "\">", "A", "</h1>",
                        "<h1 id=\"", "a", "\">", "A", "</h1>">>
    /\ Len(toc) = 2 /\ toc[1] = toc[2]

-----------------------------------------------------------------------------
(* What the claim about extract_metadata speaks of *)

\* the i-th line of text: what lies between the (i-1)-th and the i-th newline
LineOf(text, i) ==
    LET nl == {p \in DOMAIN text : text[p] = "\n"}
        nth(n) == CHOOSE p \in nl : Cardinality({q \in nl : q < p}) = n - 1
        from == IF i = 1 THEN 1 ELSE nth(i - 1) + 1
        to == IF i > Cardinality(nl) THEN Len(text) ELSE nth(i) - 1
    IN  SubSeq(text, from, to)

LineCount(text) == 1 + Cardinality({p \in DOMAIN text : text[p] = "\n"})

\* s without the spaces at its two ends
Trimmed(s) ==
    LET solid == {p \in DOMAIN s : ~IsSpace(s[p])}
    IN  IF solid = {} THEN <<>>
        ELSE SubSeq(s, CHOOSE p \in solid : \A q \in solid : p <= q,
                       CHOOSE p \in solid : \A q \in solid : q <= p)

\* the colon of a line "spaces key: value", or 0 when the line is none
KeyColon(line) ==
    LET colons == {j \in DOMAIN line :
                     /\ line[j] = ":"
                     /\ j < Len(line)
                     /\ \E i \in 1..(j - 1) :
                           /\ \A x \in 1..(i - 1) : IsSpace(line[x])
                           /\ \A x \in i..(j - 1) : IsKeyChar(line[x])}
    IN  IF colons = {} THEN 0 ELSE CHOOSE j \in colons : TRUE

IsMetadataLine(line) == KeyColon(line) # 0

KeyOf(line) == Trimmed(SubSeq(line, 1, KeyColon(line) - 1))

ValueOf(line) == Trimmed(SubSeq(line, KeyColon(line) + 1, Len(line)))

\* C7: the mapping extract_metadata returns has exactly the keys of the lines
\* of the form "key: value", each with the trimmed value of the last such
\* line with that key; other lines add nothing, and with no such line the
\* mapping is empty.
C7_LastValueWins ==
    pc = "meta_return" =>
        LET n == LineCount(markdown_content)
            line(i) == LineOf(markdown_content, i)
            meta == {i \in 1..n : IsMetadataLine(line(i))}
        IN  /\ DOMAIN metadata = {KeyOf(line(i)) : i \in meta}
            /\ \A i \in meta :
                  (\A j \in meta : j > i => KeyOf(line(j)) # KeyOf(line(i)))
                  => metadata[KeyOf(line(i))] = ValueOf(line(i))
            /\ meta = {} => metadata = EmptyDict

\* C7 witness: "a: a" then "a:B" returns a -> B
C7_Witness ==
    /\ pc = "meta_return"
    /\ markdown_content = <<"a", ":", " ", "a", "\n", "a", ":", "B">>
    /\ DOMAIN metadata = {<<"a">>}
    /\ metadata[<<"a">>] = <<"B">>

====
